---------------------------- MODULE Spec2Model ----------------------------
(***************************************************************************)
(* Model of the preflight scanner's shared facilities:                     *)
(*   - the endpoint probe   (isLocalURL, doGet, tryURL)  checks.go         *)
(*   - the text preprocessor (stripComments)             checks.go         *)
(*   - the balanced-block extractors and the nested-    seo.go,           *)
(*     block lookups                                     og_twitter.go     *)
(*   - the summary of the CheckResults                   output.go         *)
(*   - the scan over the registry and its exit code                        *)
(*   - Run of HealthCheck, SecurityHeadersCheck, SEOMetadataCheck,         *)
(*     OGTwitterCheck and StructuredDataCheck                              *)
(* Strings are sequences of one-character strings, so that prefix, suffix, *)
(* substring and case conversion are computed and not assumed.             *)
(***************************************************************************)
EXTENDS Integers, Sequences, FiniteSets, TLC

VARIABLES
    pc,        \* tryURL: position of the call ("idle", "entry", "bare_http", "alt", "done")
    url,       \* tryURL: the url argument
    reqs,      \* tryURL: URLs handed to doGet so far, in order
    outs,      \* tryURL: outcome of each request of reqs
    err,       \* tryURL: the local variable err (NoErr when nil)
    ret,       \* tryURL: the returned triple (resp, actual URL, err)
    content,   \* text: the file content being analysed
    frags,     \* text: number of fragments typed into content
    phase,     \* text: "off", "typing", "stripped", "restripped", "extracted", "looked"
    out1,      \* text: stripComments(content)
    out2,      \* text: stripComments(out1)
    pos,       \* text: the offset handed to the block extractors
    blockSEO,  \* text: extractBraceBlockSEO(content, pos)
    blockOG,   \* text: extractBraceBlock(content, pos)
    key,       \* text: the key handed to the nested-block lookups
    results,   \* report: the CheckResults collected so far, in order
    summary,   \* report: CalculateSummary(results) (NoSummary before)
    ignoreIDs, \* scan: the configured ignore list
    behaviour, \* scan: what each rule's Run returns on this project
    idx,       \* scan: number of registry entries handled so far
    ran,       \* scan: IDs of the rules whose Run was called, in order
    exitCode,  \* scan: the process exit code (NoExit before the end)
    ctx,       \* rule: the Context and project a rule's Run is given
    result,    \* rule: what Run returned (NoResult before)
    latest,    \* update: the version string of the latest release
    current,   \* update: the version string of the running binary
    newer      \* update: <<isNewerVersion(latest, current)>> (<<>> before)

probeVars == <<pc, url, reqs, outs, err, ret>>

stripVars == <<out1, out2>>

braceVars == <<pos, blockSEO, blockOG>>

textVars == <<content, frags, phase, out1, out2, pos, blockSEO, blockOG>>

reportVars == <<results, summary>>

scanVars == <<ignoreIDs, behaviour, idx, ran, exitCode>>

ruleVars == <<ctx, result>>

versionVars == <<latest, current, newer>>

restVars == <<key, reportVars, scanVars, ruleVars, versionVars>>

vars == <<pc, url, reqs, outs, err, ret, content, frags, phase, out1, out2, pos, blockSEO, blockOG,
          key, results, summary, ignoreIDs, behaviour, idx, ran, exitCode, ctx, result,
          latest, current, newer>>

\* values of the variables of a facility that is not in use
NoSummary == [ok |-> -1, warn |-> -1, fail |-> -1]

NoExit == -1

NoCtx == [rule |-> "none"]

NoResult == [returned |-> FALSE]

ReportOff ==
    /\ results = <<>>
    /\ summary = NoSummary

ScanOff ==
    /\ ignoreIDs = {}
    /\ behaviour = <<>>
    /\ idx = 0
    /\ ran = <<>>
    /\ exitCode = NoExit

RulesOff ==
    /\ ctx = NoCtx
    /\ result = NoResult

VersionOff ==
    /\ latest = <<>>
    /\ current = <<>>
    /\ newer = <<>>

RestOff ==
    /\ key = <<>>
    /\ ReportOff
    /\ ScanOff
    /\ RulesOff
    /\ VersionOff

-----------------------------------------------------------------------------
(* String literals of the source, as character sequences.                  *)

S_http == <<"h", "t", "t", "p", ":", "/", "/">>

S_https == <<"h", "t", "t", "p", "s", ":", "/", "/">>

S_localhost == <<"l", "o", "c", "a", "l", "h", "o", "s", "t">>

S_loopback == <<"1", "2", "7", ".", "0", ".", "0", ".", "1">>

S_anyaddr == <<"0", ".", "0", ".", "0", ".", "0">>

S_dotlocal == <<".", "l", "o", "c", "a", "l">>

S_dottest == <<".", "t", "e", "s", "t">>

S_dotddev == <<".", "d", "d", "e", "v", ".", "s", "i", "t", "e">>

-----------------------------------------------------------------------------
(* Go's strings package, on character sequences.                           *)

\* strings.HasPrefix(s, p)
HasPrefix(s, p) ==
    /\ Len(s) >= Len(p)
    /\ SubSeq(s, 1, Len(p)) = p

\* strings.HasSuffix(s, p)
HasSuffix(s, p) ==
    /\ Len(s) >= Len(p)
    /\ SubSeq(s, Len(s) - Len(p) + 1, Len(s)) = p

\* p occurs in s at (1-based) index i
MatchAt(s, i, p) ==
    /\ i >= 1
    /\ i + Len(p) - 1 <= Len(s)
    /\ SubSeq(s, i, i + Len(p) - 1) = p

\* strings.Contains(s, p)
Contains(s, p) == \E i \in 1..(Len(s) + 1) : MatchAt(s, i, p)

\* strings.TrimPrefix(s, p)
TrimPrefix(s, p) == IF HasPrefix(s, p) THEN SubSeq(s, Len(p) + 1, Len(s)) ELSE s

UpperLetters ==
    <<"A", "B", "C", "D", "E", "F", "G", "H", "I", "J", "K", "L", "M", "N", "O", "P", "Q", "R", "S", "T", "U", "V", "W", "X", "Y", "Z">>

LowerLetters ==
    <<"a", "b", "c", "d", "e", "f", "g", "h", "i", "j", "k", "l", "m", "n", "o", "p", "q", "r", "s", "t", "u", "v", "w", "x", "y", "z">>

\* unicode.ToLower on ASCII
LowerChar(c) ==
    IF \E i \in 1..Len(UpperLetters) : UpperLetters[i] = c
    THEN LowerLetters[CHOOSE i \in 1..Len(UpperLetters) : UpperLetters[i] = c]
    ELSE c

\* strings.ToLower(s)
ToLower(s) == [i \in 1..Len(s) |-> LowerChar(s[i])]

-----------------------------------------------------------------------------
(* Locality classification.                                                *)

isLocalURL_NoLower(u) ==
    \/ Contains(u, S_localhost)
    \/ Contains(u, S_loopback)
    \/ Contains(u, S_anyaddr)
    \/ HasSuffix(u, S_dotlocal)
    \/ HasSuffix(u, S_dottest)
    \/ HasSuffix(u, S_dotddev)

\* isLocalURL(url)
isLocalURL(u) ==
    LET l == ToLower(u) IN
    \/ Contains(l, S_localhost)
    \/ Contains(l, S_loopback)
    \/ Contains(l, S_anyaddr)
    \/ HasSuffix(l, S_dotlocal)
    \/ HasSuffix(l, S_dottest)
    \/ HasSuffix(l, S_dotddev)

-----------------------------------------------------------------------------
(* The addresses handed to the probe: an optional protocol prefix, a host  *)
(* and an optional path.                                                   *)

H_localhost == <<"l", "o", "c", "a", "l", "h", "o", "s", "t">>

H_LocalHost == <<"L", "o", "c", "a", "l", "H", "o", "s", "t">>

H_loopback == <<"1", "2", "7", ".", "0", ".", "0", ".", "1">>

H_anyaddr == <<"0", ".", "0", ".", "0", ".", "0">>

H_test == <<"a", ".", "t", "e", "s", "t">>

H_TEST == <<"a", ".", "T", "E", "S", "T">>

H_local == <<"a", ".", "l", "o", "c", "a", "l">>

H_ddev == <<"a", ".", "d", "d", "e", "v", ".", "s", "i", "t", "e">>

H_com == <<"a", ".", "c", "o", "m">>

H_testcom == <<"t", "e", "s", "t", ".", "c", "o", "m">>

H_localcom == <<"a", ".", "l", "o", "c", "a", "l", ".", "c", "o">>

Hosts == {H_localhost, H_LocalHost, H_loopback, H_anyaddr, H_test, H_TEST, H_local, H_ddev, H_com, H_testcom, H_localcom}

Prefixes == {<<>>, S_http, S_https}

Paths == {<<>>, <<"/", "s">>}

Addresses == {p \o h \o t : p \in Prefixes, h \in Hosts, t \in Paths}

\* HTTP status codes a server may answer with
Statuses == {200, 301, 404, 500}

-----------------------------------------------------------------------------
(* The transport.  client.Do either completes the round trip (a response   *)
(* with some status code) or returns an error; a URL without a scheme is   *)
(* rejected by net/http with an error before anything is sent.  When the   *)
(* client's redirect policy fails (by default after ten redirects),        *)
(* client.Do returns the last redirect response together with the error.   *)

RespOutcome(st) == [ok |-> TRUE, status |-> st]

ErrOutcome == [ok |-> FALSE, status |-> 0]

\* a non-nil error together with the non-nil last response
RedirectErrOutcome == [ok |-> FALSE, status |-> 301]

\* the resp that doGet returned is not nil
RespIsSet(o) == o.status # 0

HasScheme(u) == HasPrefix(u, S_http) \/ HasPrefix(u, S_https)

\* doGet(client, url): the outcomes the transport can produce for url
doGet(u) ==
    IF HasScheme(u)
    THEN {ErrOutcome, RedirectErrOutcome} \cup {RespOutcome(st) : st \in Statuses}
    ELSE {ErrOutcome}

ErrIsNil_StatusAware(o) == o.ok /\ o.status < 400

\* the test "err == nil" on what doGet returned
ErrIsNil(o) == o.ok

\* a returned triple: resp and err name the request (index into reqs) whose
\* response / error is returned, 0 standing for nil
Triple(r, u, e) == [resp |-> r, url |-> u, err |-> e]

NoRet == Triple(0, <<>>, 0)

-----------------------------------------------------------------------------
(* tryURL, one action per doGet call.                                      *)

\* a caller invokes tryURL(client, u)
Call(u) ==
    /\ pc = "idle"
    /\ pc' = "entry"
    /\ url' = u
    /\ UNCHANGED <<reqs, outs, err, ret>>
    /\ UNCHANGED textVars
    /\ UNCHANGED restVars

httpsURL_Plain(u) == S_http \o u

\* httpsURL := "https://" + url
httpsURL(u) == S_https \o u

\* httpURL := "http://" + url
httpURL(u) == S_http \o u

\* the condition of the first branch: a local URL without protocol
IsBareLocal(u) == isLocalURL(u) /\ ~HasPrefix(u, S_http) /\ ~HasPrefix(u, S_https)

\* lines 179-185: local URL without protocol, https first
BareHTTPS ==
    /\ pc = "entry"
    /\ IsBareLocal(url)
    /\ LET hsURL == httpsURL(url) IN
       \E o \in doGet(hsURL) :
          /\ reqs' = Append(reqs, hsURL)
          /\ outs' = Append(outs, o)
          /\ IF ErrIsNil(o)
             THEN /\ ret' = Triple(Len(reqs) + 1, hsURL, 0)
                  /\ err' = 0
                  /\ pc' = "done"
             ELSE /\ err' = Len(reqs) + 1
                  /\ pc' = "bare_http"
                  /\ UNCHANGED ret
    /\ UNCHANGED url
    /\ UNCHANGED textVars
    /\ UNCHANGED restVars

\* lines 187-193: fall back to http
BareHTTP ==
    /\ pc = "bare_http"
    /\ LET hURL == httpURL(url) IN
       \E o \in doGet(hURL) :
          /\ reqs' = Append(reqs, hURL)
          /\ outs' = Append(outs, o)
          /\ IF ErrIsNil(o)
             THEN /\ ret' = Triple(Len(reqs) + 1, hURL, 0)
                  /\ err' = 0
             ELSE /\ ret' = Triple(0, url, Len(reqs) + 1)
                  /\ err' = Len(reqs) + 1
    /\ pc' = "done"
    /\ UNCHANGED url
    /\ UNCHANGED textVars
    /\ UNCHANGED restVars

AltURL_AlwaysHTTPS(u) == S_https \o TrimPrefix(TrimPrefix(u, S_http), S_https)

\* lines 205-210: the alternate protocol of a URL
AltURL(u) ==
    IF HasPrefix(u, S_http) THEN S_https \o TrimPrefix(u, S_http)
    ELSE IF HasPrefix(u, S_https) THEN S_http \o TrimPrefix(u, S_https)
    ELSE <<>>

\* lines 198-202: local URL with protocol, the given URL first
LocalGiven ==
    /\ pc = "entry"
    /\ ~IsBareLocal(url)
    /\ isLocalURL(url)
    /\ \E o \in doGet(url) :
          /\ reqs' = Append(reqs, url)
          /\ outs' = Append(outs, o)
          /\ IF ErrIsNil(o)
             THEN /\ ret' = Triple(Len(reqs) + 1, url, 0)
                  /\ err' = 0
                  /\ pc' = "done"
             ELSE /\ err' = Len(reqs) + 1
                  /\ pc' = "alt"
                  /\ UNCHANGED ret
    /\ UNCHANGED url
    /\ UNCHANGED textVars
    /\ UNCHANGED restVars

LocalAlt_KeepFirstErr ==
    /\ pc = "alt"
    /\ LET altURL == AltURL(url) IN
       \E o \in doGet(altURL) :
          /\ reqs' = Append(reqs, altURL)
          /\ outs' = Append(outs, o)
          /\ IF ErrIsNil(o)
             THEN /\ ret' = Triple(Len(reqs) + 1, altURL, 0)
                  /\ err' = 0
             ELSE /\ ret' = Triple(0, url, err)
                  /\ UNCHANGED err
    /\ pc' = "done"
    /\ UNCHANGED url
    /\ UNCHANGED textVars
    /\ UNCHANGED restVars

\* lines 204-218: the alternate protocol
LocalAlt ==
    /\ pc = "alt"
    /\ LET altURL == AltURL(url) IN
       IF altURL # <<>>
       THEN \E o \in doGet(altURL) :
               /\ reqs' = Append(reqs, altURL)
               /\ outs' = Append(outs, o)
               /\ IF ErrIsNil(o)
                  THEN /\ ret' = Triple(Len(reqs) + 1, altURL, 0)
                       /\ err' = 0
                  ELSE /\ ret' = Triple(0, url, Len(reqs) + 1)
                       /\ err' = Len(reqs) + 1
       ELSE /\ ret' = Triple(0, url, err)
            /\ UNCHANGED <<reqs, outs, err>>
    /\ pc' = "done"
    /\ UNCHANGED url
    /\ UNCHANGED textVars
    /\ UNCHANGED restVars

Direct_WithFallback ==
    /\ pc = "entry"
    /\ ~IsBareLocal(url)
    /\ ~isLocalURL(url)
    /\ \E o \in doGet(url) :
          /\ reqs' = Append(reqs, url)
          /\ outs' = Append(outs, o)
          /\ IF ErrIsNil(o)
             THEN /\ ret' = Triple(Len(reqs) + 1, url, 0)
                  /\ err' = 0
                  /\ pc' = "done"
             ELSE /\ err' = Len(reqs) + 1
                  /\ pc' = "alt"
                  /\ UNCHANGED ret
    /\ UNCHANGED url
    /\ UNCHANGED textVars
    /\ UNCHANGED restVars

\* lines 221-223: non-local URL, tried directly
Direct ==
    /\ pc = "entry"
    /\ ~IsBareLocal(url)
    /\ ~isLocalURL(url)
    /\ \E o \in doGet(url) :
          /\ reqs' = Append(reqs, url)
          /\ outs' = Append(outs, o)
          /\ ret' = Triple(IF RespIsSet(o) THEN Len(reqs) + 1 ELSE 0, url,
                           IF ErrIsNil(o) THEN 0 ELSE Len(reqs) + 1)
          /\ err' = IF ErrIsNil(o) THEN 0 ELSE Len(reqs) + 1
    /\ pc' = "done"
    /\ UNCHANGED url
    /\ UNCHANGED textVars
    /\ UNCHANGED restVars

InitProbe ==
    /\ pc = "idle"
    /\ url = <<>>
    /\ reqs = <<>>
    /\ outs = <<>>
    /\ err = 0
    /\ ret = NoRet
    /\ content = <<>>
    /\ frags = 0
    /\ phase = "off"
    /\ out1 = <<>>
    /\ out2 = <<>>
    /\ pos = 0
    /\ blockSEO = <<>>
    /\ blockOG = <<>>
    /\ RestOff

NextProbe ==
    \/ \E u \in Addresses : Call(u)
    \/ BareHTTPS
    \/ BareHTTP
    \/ LocalGiven
    \/ LocalAlt
    \/ Direct

SpecProbe == InitProbe /\ [][NextProbe]_vars

-----------------------------------------------------------------------------
(* Properties of the probe.                                                *)

\* the call has returned
Returned == pc = "done"

\* the request (index) whose response was the first one obtained, 0 if none
FirstResponse ==
    IF \E k \in 1..Len(outs) : outs[k].ok
    THEN CHOOSE k \in 1..Len(outs) : outs[k].ok /\ \A j \in 1..(k - 1) : ~outs[j].ok
    ELSE 0

\* C1: for a local address without http:// or https:// prefix, the https://
\* request is issued first, the http:// request only after the https://
\* request failed at transport level, and the call returns the first response
\* obtained with the URL of the request that produced it.
C1_BareLocalHTTPSFirst ==
    (pc # "idle" /\ isLocalURL(url) /\ ~HasScheme(url)) =>
        /\ Len(reqs) <= 2
        /\ Len(reqs) >= 1 => reqs[1] = S_https \o url
        /\ Len(reqs) = 2 => (reqs[2] = S_http \o url /\ ~outs[1].ok)
        /\ Returned =>
              /\ Len(reqs) >= 1
              /\ ret.resp = FirstResponse
              /\ ret.resp # 0 => ret.url = reqs[ret.resp]
              /\ (Len(reqs) = 2 /\ outs[2].ok) => HasPrefix(ret.url, S_http)

C1_Witness ==
    /\ Returned
    /\ isLocalURL(url) /\ ~HasScheme(url)
    /\ Len(reqs) = 2
    /\ ~outs[1].ok /\ outs[2].ok
    /\ ret.url = S_http \o url

\* C2: for a non-local address without prefix, tryURL issues exactly one
\* request, and that request is to "https://" + address.
C2_RemoteBareAssumesHTTPS ==
    (Returned /\ ~isLocalURL(url) /\ ~HasScheme(url)) =>
        reqs = <<S_https \o url>>

\* C3: for a local address with an http:// or https:// prefix, the given URL
\* is requested first, the protocol-swapped URL only after a transport
\* failure of the first, and the call returns whichever request got a
\* response, paired with the URL of that request.
C3_LocalGivenThenSwapped ==
    (pc # "idle" /\ isLocalURL(url) /\ HasScheme(url)) =>
        /\ Len(reqs) <= 2
        /\ Len(reqs) >= 1 => reqs[1] = url
        /\ Len(reqs) = 2 =>
              /\ ~outs[1].ok
              /\ HasPrefix(url, S_http) =>
                    reqs[2] = S_https \o SubSeq(url, Len(S_http) + 1, Len(url))
              /\ HasPrefix(url, S_https) =>
                    reqs[2] = S_http \o SubSeq(url, Len(S_https) + 1, Len(url))
        /\ Returned =>
              /\ Len(reqs) >= 1
              /\ ret.resp = FirstResponse
              /\ ret.resp # 0 => ret.url = reqs[ret.resp]

C3_Witness ==
    /\ Returned
    /\ isLocalURL(url) /\ HasPrefix(url, S_https)
    /\ Len(reqs) = 2
    /\ ~outs[1].ok /\ outs[2].ok
    /\ ret.url = reqs[2] /\ HasPrefix(ret.url, S_http)

\* C4: for a non-local address with an explicit prefix, exactly one request
\* is made, to the given URL unchanged, whether it succeeds or fails.
C4_RemoteGivenOnce ==
    (pc # "idle" /\ ~isLocalURL(url) /\ HasScheme(url)) =>
        /\ Len(reqs) <= 1
        /\ pc # "entry" => (Returned /\ reqs = <<url>>)

C4_Witness ==
    /\ Returned
    /\ ~isLocalURL(url) /\ HasScheme(url)
    /\ reqs = <<url>>
    /\ ~outs[1].ok

\* C5: when two attempts are made and both fail, no response is returned and
\* the error returned is the second attempt's, never the first's.
C5_BothFailSecondError ==
    (Returned /\ Len(reqs) = 2 /\ ~outs[1].ok /\ ~outs[2].ok) =>
        /\ ret.resp = 0
        /\ ret.err = 2

C5_Witness ==
    /\ Returned
    /\ HasScheme(url)
    /\ Len(reqs) = 2 /\ ~outs[1].ok /\ ~outs[2].ok
    /\ ret.err = 2

\* C6: the fallback decision depends only on whether the transport returned a
\* response: a first response with any status code (4xx/5xx included) is
\* returned and no further attempt is made.
C6_AnyStatusEndsProbe ==
    (Len(outs) >= 1 /\ outs[1].ok) =>
        /\ Returned
        /\ Len(reqs) = 1
        /\ ret = Triple(1, reqs[1], 0)

C6_Witness ==
    /\ Returned
    /\ isLocalURL(url)
    /\ Len(reqs) = 1
    /\ outs[1].ok /\ outs[1].status = 500
    /\ ret.resp = 1

\* p occurs somewhere in s, position by position
Occurs(p, s) ==
    \E i \in 0..(Len(s) - Len(p)) : \A k \in 1..Len(p) : s[i + k] = p[k]

\* s ends with p, position by position
Ends(p, s) ==
    /\ Len(s) >= Len(p)
    /\ \A k \in 1..Len(p) : s[Len(s) - Len(p) + k] = p[k]

\* s starts with p, position by position
Starts(p, s) ==
    /\ Len(s) >= Len(p)
    /\ \A k \in 1..Len(p) : s[k] = p[k]

UpperChar(c) ==
    IF \E i \in 1..Len(LowerLetters) : LowerLetters[i] = c
    THEN UpperLetters[CHOOSE i \in 1..Len(LowerLetters) : LowerLetters[i] = c]
    ELSE c

ToUpper(s) == [i \in 1..Len(s) |-> UpperChar(s[i])]

\* the address without its protocol prefix, if it has one
Unprefixed(u) ==
    IF Starts(S_http, u) THEN SubSeq(u, Len(S_http) + 1, Len(u))
    ELSE IF Starts(S_https, u) THEN SubSeq(u, Len(S_https) + 1, Len(u))
    ELSE u

\* C7: isLocalURL(a) is true exactly when the lower-cased a contains
\* "localhost", "127.0.0.1" or "0.0.0.0", or ends with ".local", ".test" or
\* ".ddev.site"; the result depends neither on letter case nor on the
\* presence of a protocol prefix.
C7_LocalityExact ==
    pc # "idle" =>
        LET l == [i \in 1..Len(url) |-> LowerChar(url[i])]
            bare == Unprefixed(url)
        IN  /\ isLocalURL(url) <=>
                  \/ Occurs(S_localhost, l)
                  \/ Occurs(S_loopback, l)
                  \/ Occurs(S_anyaddr, l)
                  \/ Ends(S_dotlocal, l)
                  \/ Ends(S_dottest, l)
                  \/ Ends(S_dotddev, l)
            /\ isLocalURL(ToUpper(url)) = isLocalURL(url)
            /\ isLocalURL(l) = isLocalURL(url)
            /\ isLocalURL(S_http \o bare) = isLocalURL(bare)
            /\ isLocalURL(S_https \o bare) = isLocalURL(bare)

C7_Witness ==
    /\ Returned
    /\ url # ToLower(url)
    /\ Ends(S_dottest, ToLower(url))
    /\ isLocalURL(url)
    /\ Len(reqs) = 2

-----------------------------------------------------------------------------
(* Comment stripping.  Each regexp.ReplaceAllString(content, "") is a      *)
(* left-to-right scan that drops every leftmost match and resumes after it.*)

NL == "\n"

\* the character class \s of Go's regexp
IsSpace(c) == c \in {" ", "\t", "\n", "\f", "\r"}

\* the comment markers of the patterns
S_slashes == <<"/", "/">>

S_blockOpen == <<"/", "*">>

S_blockClose == <<"*", "/">>

S_htmlOpen == <<"<", "!", "-", "-">>

S_htmlClose == <<"-", "-", ">">>

S_twigOpen == <<"{", "#">>

S_twigClose == <<"#", "}">>

S_erbOpen == <<"<", "%", "#">>

S_erbClose == <<"%", ">">>

\* where [^\n]* or .* stops when started at i: the next newline, or past the end
LineEnd(s, i) ==
    CHOOSE j \in i..(Len(s) + 1) :
        /\ j = Len(s) + 1 \/ s[j] = NL
        /\ \A k \in i..(j - 1) : s[k] # NL

RECURSIVE RemoveSingleLineFrom(_, _)
\* singleLine `//[^\n]*`, replaced by nothing, from position i on
RemoveSingleLineFrom(s, i) ==
    IF i > Len(s) THEN <<>>
    ELSE IF MatchAt(s, i, S_slashes)
         THEN RemoveSingleLineFrom(s, LineEnd(s, i + 2))
         ELSE <<s[i]>> \o RemoveSingleLineFrom(s, i + 1)

\* the start of the first closer at or after i, 0 if there is none
FirstClose(s, i, close) ==
    IF \E j \in i..Len(s) : MatchAt(s, j, close)
    THEN CHOOSE j \in i..Len(s) :
            /\ MatchAt(s, j, close)
            /\ \A k \in i..(j - 1) : ~MatchAt(s, k, close)
    ELSE 0

RECURSIVE RemoveBlocksFrom(_, _, _, _)
\* a pattern `(?s)open.*?close`, replaced by nothing, from position i on
RemoveBlocksFrom(s, i, open, close) ==
    IF i > Len(s) THEN <<>>
    ELSE LET j == IF MatchAt(s, i, open) THEN FirstClose(s, i + Len(open), close) ELSE 0
         IN  IF j # 0
             THEN RemoveBlocksFrom(s, j + Len(close), open, close)
             ELSE <<s[i]>> \o RemoveBlocksFrom(s, i + 1, open, close)

\* ^ under (?m): the start of the text or just after a newline
AtLineStart(s, i) == i = 1 \/ s[i - 1] = NL

\* the first position at or after i that holds no white space
SkipSpace(s, i) ==
    CHOOSE k \in i..(Len(s) + 1) :
        /\ k = Len(s) + 1 \/ ~IsSpace(s[k])
        /\ \A j \in i..(k - 1) : IsSpace(s[j])

\* hashComments `(?m)^\s*#[^{].*$` tried at position i: the position just
\* after the match, 0 if there is no match at i
HashMatchEnd(s, i) ==
    LET k == SkipSpace(s, i)
    IN  IF k + 1 <= Len(s) /\ s[k] = "#" /\ s[k + 1] # "{"
        THEN LineEnd(s, k + 2)
        ELSE 0

RECURSIVE RemoveHashFrom(_, _)
\* hashComments, replaced by nothing, from position i on
RemoveHashFrom(s, i) ==
    IF i > Len(s) THEN <<>>
    ELSE LET e == IF AtLineStart(s, i) THEN HashMatchEnd(s, i) ELSE 0
         IN  IF e # 0
             THEN RemoveHashFrom(s, e)
             ELSE <<s[i]>> \o RemoveHashFrom(s, i + 1)

\* stripComments(content)
stripComments(c) ==
    LET c1 == RemoveSingleLineFrom(c, 1)
        c2 == RemoveBlocksFrom(c1, 1, S_blockOpen, S_blockClose)
        c3 == RemoveBlocksFrom(c2, 1, S_htmlOpen, S_htmlClose)
        c4 == RemoveBlocksFrom(c3, 1, S_twigOpen, S_twigClose)
        c5 == RemoveBlocksFrom(c4, 1, S_erbOpen, S_erbClose)
    IN  RemoveHashFrom(c5, 1)

-----------------------------------------------------------------------------
(* A file is typed fragment by fragment, stripped (as SEOMetadataCheck.Run *)
(* and OGTwitterCheck.Run do on what they read), and stripped once more.   *)

\* the most fragments a file is made of
MaxFragments == 4

\* the fragments: ordinary characters and the pieces of the comment markers
Fragments ==
    { <<"/">>, <<"*">>, <<"#">>, <<NL>>, <<" ">>, <<"a">>, <<"{">>, <<"}">>,
      S_htmlOpen, S_htmlClose, S_erbOpen, S_erbClose }

InitStrip ==
    /\ pc = "off"
    /\ url = <<>>
    /\ reqs = <<>>
    /\ outs = <<>>
    /\ err = 0
    /\ ret = NoRet
    /\ content = <<>>
    /\ frags = 0
    /\ phase = "typing"
    /\ out1 = <<>>
    /\ out2 = <<>>
    /\ pos = 0
    /\ blockSEO = <<>>
    /\ blockOG = <<>>
    /\ RestOff

\* one more fragment of the file
Type(f) ==
    /\ phase = "typing"
    /\ frags < MaxFragments
    /\ content' = content \o f
    /\ frags' = frags + 1
    /\ UNCHANGED <<phase, out1, out2>>
    /\ UNCHANGED braceVars
    /\ UNCHANGED probeVars
    /\ UNCHANGED restVars

\* contentStr := stripComments(string(content))
Strip ==
    /\ phase = "typing"
    /\ out1' = stripComments(content)
    /\ phase' = "stripped"
    /\ UNCHANGED <<content, frags, out2>>
    /\ UNCHANGED braceVars
    /\ UNCHANGED probeVars
    /\ UNCHANGED restVars

\* stripComments applied to an already stripped text
StripAgain ==
    /\ phase = "stripped"
    /\ out2' = stripComments(out1)
    /\ phase' = "restripped"
    /\ UNCHANGED <<content, frags, out1>>
    /\ UNCHANGED braceVars
    /\ UNCHANGED probeVars
    /\ UNCHANGED restVars

NextStrip ==
    \/ \E f \in Fragments : Type(f)
    \/ Strip
    \/ StripAgain

SpecStrip == InitStrip /\ [][NextStrip]_vars

-----------------------------------------------------------------------------
(* Properties of comment stripping.                                        *)

\* the lines of a text (the pieces between newlines), as a set
LinesOf(s) ==
    { SubSeq(s, i, LineEnd(s, i) - 1) : i \in {j \in 1..(Len(s) + 1) : AtLineStart(s, j)} }

\* the text holds the opening marker of a comment form other than the hash form
HasOtherMarker(s) ==
    \/ Occurs(S_slashes, s)
    \/ Occurs(S_blockOpen, s)
    \/ Occurs(S_htmlOpen, s)
    \/ Occurs(S_twigOpen, s)
    \/ Occurs(S_erbOpen, s)

\* the line holds a '#' and its first non-white-space character is not '#'
HasInnerHashOnly(l) ==
    /\ \E k \in 1..Len(l) : l[k] = "#"
    /\ \E k \in 1..Len(l) :
          /\ ~IsSpace(l[k])
          /\ l[k] # "#"
          /\ \A j \in 1..(k - 1) : IsSpace(l[j])

\* C8: stripComments is idempotent: stripping the stripped text again gives
\* the stripped text.
C8_StripIdempotent ==
    phase = "restripped" => out2 = out1

\* C9: stripComments never removes a '#' that is not the first
\* non-white-space character on its line: the '#' is still present, with its
\* line, in the output.  Stated for the texts in which no other comment form
\* opens, where only the hash step can remove anything, and for the lines
\* that do not begin with '#'.
C9_InnerHashKept ==
    (phase = "stripped" /\ ~HasOtherMarker(content)) =>
        \A l \in LinesOf(content) : HasInnerHashOnly(l) => l \in LinesOf(out1)

-----------------------------------------------------------------------------
(* Balanced-block extraction.  Offsets are zero-based as in the source:    *)
(* content[i] of the source is s[i + 1] here.                              *)

\* content[pos : i+1]
Slice(s, from, to) == SubSeq(s, from + 1, to)

\* the back quote, which a TLA+ string cannot hold
BackQuote == "bq"

\* c == '"' || c == '\'' || c == the back quote
IsQuote(c) == c \in {"\"", "'", BackQuote}

\* c == stringChar && (i == 0 || content[i-1] != '\\')
IsClosingQuote(s, i, stringChar) ==
    /\ s[i + 1] = stringChar
    /\ (i = 0 \/ s[i] # "\\")

RECURSIVE ScanSEO(_, _, _, _, _, _)
\* the loop of extractBraceBlockSEO at index i
ScanSEO(s, p, i, depth, inString, stringChar) ==
    IF i >= Len(s) THEN <<>>
    ELSE LET c == s[i + 1] IN
         IF ~inString /\ IsQuote(c)
         THEN ScanSEO(s, p, i + 1, depth, TRUE, c)
         ELSE IF inString /\ IsClosingQuote(s, i, stringChar)
         THEN ScanSEO(s, p, i + 1, depth, FALSE, stringChar)
         ELSE IF ~inString
         THEN IF c = "{" THEN ScanSEO(s, p, i + 1, depth + 1, inString, stringChar)
              ELSE IF c = "}"
              THEN IF depth - 1 = 0 THEN Slice(s, p, i + 1)
                   ELSE ScanSEO(s, p, i + 1, depth - 1, inString, stringChar)
              ELSE ScanSEO(s, p, i + 1, depth, inString, stringChar)
         ELSE ScanSEO(s, p, i + 1, depth, inString, stringChar)

\* extractBraceBlockSEO(content, pos)
extractBraceBlockSEO(s, p) ==
    IF p >= Len(s) \/ s[p + 1] # "{" THEN <<>>
    ELSE ScanSEO(s, p, p, 0, FALSE, "")

RECURSIVE ScanOG(_, _, _, _)
\* the loop of extractBraceBlock at index i
ScanOG(s, p, i, depth) ==
    IF i >= Len(s) THEN <<>>
    ELSE IF s[i + 1] = "{" THEN ScanOG(s, p, i + 1, depth + 1)
    ELSE IF s[i + 1] = "}"
         THEN IF depth - 1 = 0 THEN Slice(s, p, i + 1)
              ELSE ScanOG(s, p, i + 1, depth - 1)
    ELSE ScanOG(s, p, i + 1, depth)

\* extractBraceBlock without the test of the character at the offset
extractBraceBlock_NoBraceTest(s, p) ==
    IF p >= Len(s) THEN <<>>
    ELSE ScanOG(s, p, p, 0)

\* extractBraceBlock(content, pos)
extractBraceBlock(s, p) ==
    IF p >= Len(s) \/ s[p + 1] # "{" THEN <<>>
    ELSE ScanOG(s, p, p, 0)

-----------------------------------------------------------------------------
(* A text is typed character by character and both extractors are applied  *)
(* at some offset of it.                                                   *)

\* the longest text
MaxChars == 5

\* the characters of a text
BraceChars == {"{", "}", "\"", "'", BackQuote, "\\", "a"}

\* the block { a: "\\" } up to its closing brace
S_escapedBackslash == <<"{", " ", "a", ":", " ", "\"", "\\", "\\", "\"", " ">>

\* the texts typing starts from
BraceStarts == {<<>>, S_escapedBackslash}

InitBrace ==
    /\ pc = "off"
    /\ url = <<>>
    /\ reqs = <<>>
    /\ outs = <<>>
    /\ err = 0
    /\ ret = NoRet
    /\ content \in BraceStarts
    /\ frags = 0
    /\ phase = "typing"
    /\ out1 = <<>>
    /\ out2 = <<>>
    /\ pos = 0
    /\ blockSEO = <<>>
    /\ blockOG = <<>>
    /\ RestOff

\* one more character of the text
TypeChar(c) ==
    /\ phase = "typing"
    /\ frags < MaxChars
    /\ content' = Append(content, c)
    /\ frags' = frags + 1
    /\ UNCHANGED <<phase, pos, blockSEO, blockOG>>
    /\ UNCHANGED stripVars
    /\ UNCHANGED probeVars
    /\ UNCHANGED restVars

\* both extractors applied to content at offset p
Extract(p) ==
    /\ phase = "typing"
    /\ pos' = p
    /\ blockSEO' = extractBraceBlockSEO(content, p)
    /\ blockOG' = extractBraceBlock(content, p)
    /\ phase' = "extracted"
    /\ UNCHANGED <<content, frags>>
    /\ UNCHANGED stripVars
    /\ UNCHANGED probeVars
    /\ UNCHANGED restVars

NextBrace ==
    \/ \E c \in BraceChars : TypeChar(c)
    \/ \E p \in 0..(Len(content) + 1) : Extract(p)

SpecBrace == InitBrace /\ [][NextBrace]_vars

-----------------------------------------------------------------------------
(* Properties of balanced-block extraction.                                *)

RECURSIVE MatchingBrace(_, _, _, _)
\* the offset of the '}' that brings the depth back to zero, counting only
\* the braces outside string literals (a literal runs from a quote to the
\* next same quote that no backslash escapes); -1 if there is none.
\* quote is "" outside a literal.
MatchingBrace(s, i, depth, quote) ==
    IF i >= Len(s) THEN -1
    ELSE LET c == s[i + 1] IN
         IF quote # ""
         THEN IF c = "\\" THEN MatchingBrace(s, i + 2, depth, quote)
              ELSE IF c = quote THEN MatchingBrace(s, i + 1, depth, "")
              ELSE MatchingBrace(s, i + 1, depth, quote)
         ELSE IF c \in {"\"", "'", BackQuote} THEN MatchingBrace(s, i + 1, depth, c)
         ELSE IF c = "{" THEN MatchingBrace(s, i + 1, depth + 1, "")
         ELSE IF c = "}"
              THEN IF depth = 1 THEN i ELSE MatchingBrace(s, i + 1, depth - 1, "")
         ELSE MatchingBrace(s, i + 1, depth, "")

\* the balanced block at offset p, "" if the depth never returns to zero
BalancedBlock(s, p) ==
    LET e == MatchingBrace(s, p, 0, "")
    IN  IF e = -1 THEN <<>> ELSE SubSeq(s, p + 1, e + 1)

\* C10: given an offset pointing at '{', both extractors return the text
\* from that offset through the matching '}', where only the braces outside
\* single-, double- or back-quoted string literals count.
C10_BlockIgnoresStringBraces ==
    (phase = "extracted" /\ pos < Len(content) /\ content[pos + 1] = "{") =>
        /\ blockSEO = BalancedBlock(content, pos)
        /\ blockOG = BalancedBlock(content, pos)

\* the depth after the character at offset e, counting every brace from
\* offset p on
DepthAt(s, p, e) ==
    Cardinality({k \in p..e : s[k + 1] = "{"})
        - Cardinality({k \in p..e : s[k + 1] = "}"})

\* the offsets at which the depth counted from p is back at zero
ZeroDepthOffsets(s, p) ==
    {e \in p..(Len(s) - 1) : DepthAt(s, p, e) = 0}

\* the offset does not point at a '{' of the text
NoBraceAt(s, p) == p >= Len(s) \/ s[p + 1] # "{"

\* the text holds a quote character
HasQuote(s) == \E k \in 1..Len(s) : IsQuote(s[k])

-----------------------------------------------------------------------------
(* Nested-block lookup: the key, a colon and an opening brace are searched *)
(* for and the block extractor is applied at that brace.                   *)

\* where a match of  key \s* : \s* \{  starting at index i (one-based) ends:
\* the index of its '{', 0 if there is no match at i
KeyMatchEnd(s, i, k) ==
    IF ~MatchAt(s, i, k) THEN 0
    ELSE LET j == SkipSpace(s, i + Len(k)) IN
         IF j > Len(s) \/ s[j] # ":" THEN 0
         ELSE LET b == SkipSpace(s, j + 1) IN
              IF b > Len(s) \/ s[b] # "{" THEN 0 ELSE b

\* pattern.FindStringIndex(content): the leftmost match as <<loc[0], loc[1]>>
\* (zero-based, end exclusive), <<>> for nil
FindStringIndex(s, k) ==
    LET starts == {i \in 1..Len(s) : KeyMatchEnd(s, i, k) # 0} IN
    IF starts = {} THEN <<>>
    ELSE LET i == CHOOSE x \in starts : \A y \in starts : x <= y
         IN  <<i - 1, KeyMatchEnd(s, i, k)>>

\* extractNestedBlockSEO(content, key)
extractNestedBlockSEO(s, k) ==
    LET loc == FindStringIndex(s, k) IN
    IF loc = <<>> THEN <<>> ELSE extractBraceBlockSEO(s, loc[2] - 1)

\* extractNestedBlockOG(content, key)
extractNestedBlockOG(s, k) ==
    LET loc == FindStringIndex(s, k) IN
    IF loc = <<>> THEN <<>> ELSE extractBraceBlock(s, loc[2] - 1)

\* the longest text typed between the braces of the outer block
MaxInner == 5

\* the characters typed between the braces of the outer block
InnerChars == {"{", "}", ":", " ", "\"", "a", "b"}

\* the keys looked up ("openGraph", "twitter" in the source)
Keys == {<<"a">>, <<"a", "b">>}

\* the empty block
S_emptyBlock == <<"{", "}">>

\* the block  { a: { b: 1 }, c: "}" }
S_exampleBlock ==
    <<"{", " ", "a", ":", " ", "{", " ", "b", ":", " ", "1", " ", "}", ",",
      " ", "c", ":", " ", "\"", "}", "\"", " ", "}">>

InitNested ==
    /\ pc = "off"
    /\ url = <<>>
    /\ reqs = <<>>
    /\ outs = <<>>
    /\ err = 0
    /\ ret = NoRet
    /\ content \in {S_emptyBlock, S_exampleBlock}
    /\ frags = 0
    /\ phase = "typing"
    /\ out1 = <<>>
    /\ out2 = <<>>
    /\ pos = 0
    /\ blockSEO = <<>>
    /\ blockOG = <<>>
    /\ key = <<>>
    /\ ReportOff
    /\ ScanOff
    /\ RulesOff
    /\ VersionOff

\* one more character before the closing brace of the outer block
TypeInner(c) ==
    /\ phase = "typing"
    /\ Len(content) - 2 < MaxInner
    /\ content' = SubSeq(content, 1, Len(content) - 1) \o <<c, "}">>
    /\ frags' = frags + 1
    /\ UNCHANGED <<phase, pos, blockSEO, blockOG, key>>
    /\ UNCHANGED stripVars
    /\ UNCHANGED probeVars
    /\ UNCHANGED <<reportVars, scanVars, ruleVars, versionVars>>

\* both nested-block lookups applied to content with key k; pos is the
\* offset handed to the extractors, -1 when the pattern does not match
Lookup(k) ==
    /\ phase = "typing"
    /\ key' = k
    /\ pos' = IF FindStringIndex(content, k) = <<>> THEN -1
              ELSE FindStringIndex(content, k)[2] - 1
    /\ blockSEO' = extractNestedBlockSEO(content, k)
    /\ blockOG' = extractNestedBlockOG(content, k)
    /\ phase' = "looked"
    /\ UNCHANGED <<content, frags>>
    /\ UNCHANGED stripVars
    /\ UNCHANGED probeVars
    /\ UNCHANGED <<reportVars, scanVars, ruleVars, versionVars>>

NextNested ==
    \/ \E c \in InnerChars : TypeInner(c)
    \/ \E k \in Keys : Lookup(k)

SpecNested == InitNested /\ [][NextNested]_vars

-----------------------------------------------------------------------------
(* Properties of the nested-block lookup.                                  *)

RECURSIVE QuoteState(_, _, _, _)
\* the quote of the string literal that offset n lies in, "" if it lies in
\* none; the scan is at offset i inside a literal opened by quote
QuoteState(s, i, n, quote) ==
    IF i >= n THEN quote
    ELSE LET c == s[i + 1] IN
         IF quote # ""
         THEN IF c = "\\" THEN QuoteState(s, i + 2, n, quote)
              ELSE IF c = quote THEN QuoteState(s, i + 1, n, "")
              ELSE QuoteState(s, i + 1, n, quote)
         ELSE IF IsQuote(c) THEN QuoteState(s, i + 1, n, c)
         ELSE QuoteState(s, i + 1, n, "")

\* a character of a property name
IsNameChar(c) ==
    \/ \E n \in 1..Len(LowerLetters) : c = LowerLetters[n] \/ c = UpperLetters[n]
    \/ c \in {"0", "1", "2", "3", "4", "5", "6", "7", "8", "9", "_", "$"}

\* the offsets at which a property named exactly k, with a block as its
\* value, starts outside every string literal
PropertyOffsets(s, k) ==
    {i \in 0..(Len(s) - 1) :
        /\ KeyMatchEnd(s, i + 1, k) # 0
        /\ (i = 0 \/ ~IsNameChar(s[i]))
        /\ QuoteState(s, 0, i, "") = ""}

\* the block that is the value of the first property named exactly k
PropertyBlock(s, k) ==
    IF PropertyOffsets(s, k) = {} THEN <<>>
    ELSE LET i == CHOOSE x \in PropertyOffsets(s, k) :
                      \A y \in PropertyOffsets(s, k) : x <= y
         IN  BalancedBlock(s, KeyMatchEnd(s, i + 1, k) - 1)

\* C12: for a balanced block B and a key K both nested-block lookups return
\* the block that is the value of the property named exactly K in B, and
\* the empty string when B has no such property (a name that only ends
\* with K, or text inside a string literal, is not the property K).
C12_NestedExactKey ==
    (phase = "looked" /\ BalancedBlock(content, 0) = content) =>
        /\ blockSEO = PropertyBlock(content, key)
        /\ blockOG = PropertyBlock(content, key)

-----------------------------------------------------------------------------
(* CheckResults and their summary (checks.go, output.go).                  *)

SeverityInfo == "info"

SeverityWarn == "warn"

SeverityError == "error"

\* Title() of the check whose ID() is id; no title without an ID
Title(id) ==
    CASE id = "healthEndpoint" -> "Health endpoint"
      [] id = "securityHeaders" -> "Security headers are present"
      [] id = "seoMeta" -> "SEO metadata"
      [] id = "ogTwitter" -> "OG & Twitter cards configured"
      [] id = "structured_data" -> "Structured data (JSON-LD)"
      [] OTHER -> ""

\* CheckResult{ID, Title, Severity, Passed, Message, Suggestions, Details}:
\* every literal of the checks sets ID: c.ID() and Title: c.Title()
\* together or neither; a message is the sequence of its parts, the empty
\* message the empty sequence
CheckResult(id, severity, passed, message, suggestions, details) ==
    [id |-> id, title |-> Title(id), severity |-> severity, passed |-> passed,
     message |-> message, suggestions |-> suggestions, details |-> details]

\* var summary Summary
ZeroSummary == [ok |-> 0, warn |-> 0, fail |-> 0]

\* the body of the loop of CalculateSummary with severity looked at before
\* passed
Count_SeverityFirst(s, r) ==
    IF r.severity = SeverityError THEN [s EXCEPT !.fail = @ + 1]
    ELSE IF r.severity = SeverityWarn THEN [s EXCEPT !.warn = @ + 1]
    ELSE [s EXCEPT !.ok = @ + 1]

\* the body of the loop of CalculateSummary with every non-passed result
\* counted as a warning
Count_FailedAsWarn(s, r) ==
    IF r.passed THEN [s EXCEPT !.ok = @ + 1]
    ELSE [s EXCEPT !.warn = @ + 1]

\* the body of the loop of CalculateSummary without the default case of
\* the switch
Count_NoDefault(s, r) ==
    IF r.passed THEN [s EXCEPT !.ok = @ + 1]
    ELSE IF r.severity = SeverityError THEN [s EXCEPT !.fail = @ + 1]
    ELSE IF r.severity = SeverityWarn THEN [s EXCEPT !.warn = @ + 1]
    ELSE s

\* the body of the loop of CalculateSummary
Count(s, r) ==
    IF r.passed THEN [s EXCEPT !.ok = @ + 1]
    ELSE IF r.severity = SeverityError THEN [s EXCEPT !.fail = @ + 1]
    ELSE IF r.severity = SeverityWarn THEN [s EXCEPT !.warn = @ + 1]
    ELSE [s EXCEPT !.ok = @ + 1]

RECURSIVE SummaryFrom(_, _, _)
\* the loop of CalculateSummary at element i
SummaryFrom(rs, i, s) ==
    IF i > Len(rs) THEN s ELSE SummaryFrom(rs, i + 1, Count(s, rs[i]))

\* CalculateSummary(results)
CalculateSummary(rs) == SummaryFrom(rs, 1, ZeroSummary)

\* the most results handed to one summary
MaxResults == 3

\* severities a CheckResult can hold: the three constants and the zero value
Severities == {SeverityInfo, SeverityWarn, SeverityError, ""}

\* the CheckResults handed to the summary
ReportedResults ==
    {CheckResult(id, sev, p, <<"m">>, <<>>, <<>>) :
        id \in {"healthEndpoint", "seoMeta"}, sev \in Severities, p \in BOOLEAN}

InitSummary ==
    /\ pc = "off"
    /\ url = <<>>
    /\ reqs = <<>>
    /\ outs = <<>>
    /\ err = 0
    /\ ret = NoRet
    /\ content = <<>>
    /\ frags = 0
    /\ phase = "off"
    /\ out1 = <<>>
    /\ out2 = <<>>
    /\ pos = 0
    /\ blockSEO = <<>>
    /\ blockOG = <<>>
    /\ key = <<>>
    /\ ReportOff
    /\ ScanOff
    /\ RulesOff
    /\ VersionOff

\* one more CheckResult in the slice handed to the outputter
Report(r) ==
    /\ summary = NoSummary
    /\ Len(results) < MaxResults
    /\ results' = Append(results, r)
    /\ UNCHANGED summary
    /\ UNCHANGED <<probeVars, textVars, key, scanVars, ruleVars, versionVars>>

\* the outputter calls CalculateSummary(results)
Summarize ==
    /\ summary = NoSummary
    /\ summary' = CalculateSummary(results)
    /\ UNCHANGED results
    /\ UNCHANGED <<probeVars, textVars, key, scanVars, ruleVars, versionVars>>

NextSummary ==
    \/ \E r \in ReportedResults : Report(r)
    \/ Summarize

SpecSummary == InitSummary /\ [][NextSummary]_vars

-----------------------------------------------------------------------------
(* Properties of the summary.                                              *)

\* the indices of the results that did not pass and hold severity sev
FailedWith(rs, sev) ==
    {i \in 1..Len(rs) : ~rs[i].passed /\ rs[i].severity = sev}

\* rs with the elements at i and i + 1 exchanged
SwapAt(rs, i) ==
    [k \in 1..Len(rs) |-> IF k = i THEN rs[i + 1] ELSE IF k = i + 1 THEN rs[i] ELSE rs[k]]

\* C13: CalculateSummary looks at passed before severity: every passed
\* result counts in ok whatever its severity, every non-passed result of
\* severity warn counts in warn and every non-passed result of severity
\* error counts in fail (so one passed, one failed warn and one failed
\* error result give ok 1, warn 1, fail 1), and the summary does not
\* change when two neighbouring results are exchanged.
C13_PassedBeforeSeverity ==
    summary # NoSummary =>
        /\ summary.warn = Cardinality(FailedWith(results, SeverityWarn))
        /\ summary.fail = Cardinality(FailedWith(results, SeverityError))
        /\ summary.ok = Len(results) - summary.warn - summary.fail
        /\ summary.ok >= Cardinality({i \in 1..Len(results) : results[i].passed})
        /\ \A i \in 1..(Len(results) - 1) :
              CalculateSummary(SwapAt(results, i)) = summary

\* a passed result stored with severity error, a failed warn and a failed
\* error result are summarised as ok 1, warn 1, fail 1
C13_Witness ==
    /\ Len(results) = 3
    /\ results[1].passed /\ results[1].severity = SeverityError
    /\ ~results[2].passed /\ results[2].severity = SeverityWarn
    /\ ~results[3].passed /\ results[3].severity = SeverityError
    /\ summary = [ok |-> 1, warn |-> 1, fail |-> 1]

-----------------------------------------------------------------------------
(* The scan: every rule of the registry that is not ignored is run, its    *)
(* CheckResult (or a synthetic failing one, if Run returned an error) is   *)
(* collected, and the summary decides the exit code.                       *)

\* the IDs of the registry's rules whose ID() is known, in registry order
RegistryIDs == <<"healthEndpoint", "seoMeta", "ogTwitter", "securityHeaders">>

\* the number of rules in the scanned registry
MaxRules == 3

\* var Registry = []Check{...}
Registry ==
    SubSeq(RegistryIDs, 1, IF MaxRules < Len(RegistryIDs) THEN MaxRules ELSE Len(RegistryIDs))

\* what Run(ctx) of a rule returns: (CheckResult, nil) or (_, error)
RunReturns(id) ==
    {[err |-> FALSE, res |-> CheckResult(id, sev, p, <<"m">>, <<>>, <<>>)] :
        sev \in {SeverityInfo, SeverityWarn, SeverityError}, p \in BOOLEAN}
    \cup {[err |-> TRUE, res |-> CheckResult("", "", FALSE, <<>>, <<>>, <<>>)]}

\* the rule is in the ignore list, without looking at the list
IsIgnored_Never(id) == FALSE

\* the rule's ID is in the configured ignore list
IsIgnored(id) == id \in ignoreIDs

\* the synthetic Result recorded for a rule whose Run returned an error
SyntheticFailure(id) ==
    CheckResult(id, SeverityError, FALSE, <<"check failed to run">>, <<>>, <<>>)

\* the exit code with warnings looked at first
ExitCode_WarnFirst(s) ==
    IF s.warn > 0 THEN 1 ELSE IF s.fail > 0 THEN 2 ELSE 0

\* the exit code of a completed scan
ExitCode(s) ==
    IF s.fail > 0 THEN 2 ELSE IF s.warn > 0 THEN 1 ELSE 0

InitScan ==
    /\ pc = "off"
    /\ url = <<>>
    /\ reqs = <<>>
    /\ outs = <<>>
    /\ err = 0
    /\ ret = NoRet
    /\ content = <<>>
    /\ frags = 0
    /\ phase = "off"
    /\ out1 = <<>>
    /\ out2 = <<>>
    /\ pos = 0
    /\ blockSEO = <<>>
    /\ blockOG = <<>>
    /\ key = <<>>
    /\ ReportOff
    /\ ignoreIDs \in SUBSET {Registry[i] : i \in 1..Len(Registry)}
    /\ behaviour \in {f \in [{Registry[i] : i \in 1..Len(Registry)} ->
                                UNION {RunReturns(Registry[i]) : i \in 1..Len(Registry)}] :
                         \A id \in DOMAIN f : f[id] \in RunReturns(id)}
    /\ idx = 0
    /\ ran = <<>>
    /\ exitCode = NoExit
    /\ RulesOff
    /\ VersionOff

\* the next rule of the registry is in the ignore list
SkipIgnored ==
    /\ exitCode = NoExit
    /\ idx < Len(Registry)
    /\ IsIgnored(Registry[idx + 1])
    /\ idx' = idx + 1
    /\ UNCHANGED <<ignoreIDs, behaviour, ran, exitCode>>
    /\ UNCHANGED <<probeVars, textVars, key, reportVars, ruleVars, versionVars>>

\* the next rule's Run returns a CheckResult, which is appended
RunRule ==
    /\ exitCode = NoExit
    /\ idx < Len(Registry)
    /\ ~IsIgnored(Registry[idx + 1])
    /\ ~behaviour[Registry[idx + 1]].err
    /\ ran' = Append(ran, Registry[idx + 1])
    /\ results' = Append(results, behaviour[Registry[idx + 1]].res)
    /\ idx' = idx + 1
    /\ UNCHANGED <<ignoreIDs, behaviour, exitCode, summary>>
    /\ UNCHANGED <<probeVars, textVars, key, ruleVars, versionVars>>

\* the next rule's Run returns an error: a synthetic failing Result is
\* recorded and the scan goes on
RunRuleFails ==
    /\ exitCode = NoExit
    /\ idx < Len(Registry)
    /\ ~IsIgnored(Registry[idx + 1])
    /\ behaviour[Registry[idx + 1]].err
    /\ ran' = Append(ran, Registry[idx + 1])
    /\ results' = Append(results, SyntheticFailure(Registry[idx + 1]))
    /\ idx' = idx + 1
    /\ UNCHANGED <<ignoreIDs, behaviour, exitCode, summary>>
    /\ UNCHANGED <<probeVars, textVars, key, ruleVars, versionVars>>

\* all rules handled: the Results are folded into the Summary, which
\* decides the exit code
Finish ==
    /\ exitCode = NoExit
    /\ idx = Len(Registry)
    /\ summary' = CalculateSummary(results)
    /\ exitCode' = ExitCode(CalculateSummary(results))
    /\ UNCHANGED <<ignoreIDs, behaviour, idx, ran, results>>
    /\ UNCHANGED <<probeVars, textVars, key, ruleVars, versionVars>>

NextScan ==
    \/ SkipIgnored
    \/ RunRule
    \/ RunRuleFails
    \/ Finish

SpecScan == InitScan /\ [][NextScan]_vars

-----------------------------------------------------------------------------
(* Properties of the scan.                                                 *)

\* the rules of reg that are not in the ignore list ign, in order
ActiveRules(reg, ign) == SelectSeq(reg, LAMBDA id : id \notin ign)

\* reg without the rule r
WithoutRule(reg, r) == SelectSeq(reg, LAMBDA id : id # r)

\* the Results of a scan over the registry reg with ignore list ign
ScanOf(reg, ign) ==
    LET active == ActiveRules(reg, ign) IN
    [i \in 1..Len(active) |->
        IF behaviour[active[i]].err THEN SyntheticFailure(active[i])
        ELSE behaviour[active[i]].res]

\* C14: the exit code of a completed scan is a function of the Summary
\* alone: 0 when fail = 0 and warn = 0, 1 when warn > 0 and fail = 0,
\* 2 when fail > 0 whatever warn is, and never another code.
C14_ExitCodeOfSummary ==
    exitCode # NoExit =>
        /\ exitCode \in {0, 1, 2}
        /\ exitCode = 0 <=> (summary.fail = 0 /\ summary.warn = 0)
        /\ exitCode = 1 <=> (summary.warn > 0 /\ summary.fail = 0)
        /\ exitCode = 2 <=> summary.fail > 0

\* a scan with warnings and failures ends with exit code 2
C14_Witness ==
    /\ exitCode = 2
    /\ summary.warn > 0
    /\ summary.fail > 0

\* C15: a rule whose Run returns an error does not abort the scan: every
\* rule that is not ignored is run, the failing rule contributes exactly
\* one non-passed Result of severity error carrying its ID (one more in
\* the Summary's fail count), and every other rule's Result is present
\* unchanged, all in registry order.
C15_ErrorDoesNotAbort ==
    exitCode # NoExit =>
        LET active == ActiveRules(Registry, ignoreIDs)
            failing == {i \in 1..Len(active) : behaviour[active[i]].err}
            others == (1..Len(active)) \ failing
        IN  /\ ran = active
            /\ Len(results) = Len(active)
            /\ \A i \in failing :
                  /\ results[i].id = active[i]
                  /\ ~results[i].passed
                  /\ results[i].severity = SeverityError
            /\ \A i \in others : results[i] = behaviour[active[i]].res
            /\ summary.fail = Cardinality(failing)
                  + Cardinality({i \in others : /\ ~results[i].passed
                                                 /\ results[i].severity = SeverityError})

\* a completed scan of three rules in which only the second rule's Run
\* returned an error
C15_Witness ==
    /\ exitCode # NoExit
    /\ ignoreIDs = {}
    /\ Len(results) = 3
    /\ behaviour[Registry[2]].err
    /\ ~behaviour[Registry[1]].err
    /\ ~behaviour[Registry[3]].err
    /\ summary.fail = 1

\* C16: a rule whose ID is in the ignore list is never run and contributes
\* no Result: the Results and the Summary of the scan are those of the
\* scan over the registry without that rule.
C16_IgnoredLeavesNoTrace ==
    exitCode # NoExit =>
        \A r \in ignoreIDs :
            /\ \A i \in 1..Len(ran) : ran[i] # r
            /\ \A i \in 1..Len(results) : results[i].id # r
            /\ results = ScanOf(WithoutRule(Registry, r), ignoreIDs \ {r})
            /\ summary = CalculateSummary(ScanOf(WithoutRule(Registry, r), ignoreIDs \ {r}))

\* a completed scan in which the second rule, whose Run would give a
\* failing Result of severity error, is ignored and nothing failed
C16_Witness ==
    /\ exitCode # NoExit
    /\ ignoreIDs = {Registry[2]}
    /\ ~behaviour[Registry[2]].err
    /\ ~behaviour[Registry[2]].res.passed
    /\ behaviour[Registry[2]].res.severity = SeverityError
    /\ Len(results) = 2
    /\ summary.fail = 0

-----------------------------------------------------------------------------
(* The rules' Run.  What a Run reads from outside (the outcome of each     *)
(* tryURL call, whether a file can be read, which patterns match its       *)
(* content) is an input of the operator that models it.  A Run returns     *)
(* (CheckResult, error) and the tryURL calls it made, in order.            *)

\* strings.TrimSuffix
TrimSuffix(s, p) == IF HasSuffix(s, p) THEN SubSeq(s, 1, Len(s) - Len(p)) ELSE s

\* return result, nil
Returns(res, calls) == [returned |-> TRUE, res |-> res, err |-> FALSE, probes |-> calls]

\* return CheckResult{}, err
ReturnsError(calls) ==
    [returned |-> TRUE, res |-> CheckResult("", "", FALSE, <<>>, <<>>, <<>>),
     err |-> TRUE, probes |-> calls]

ID_health == "healthEndpoint"

ID_security == "securityHeaders"

ID_seo == "seoMeta"

ID_og == "ogTwitter"

ID_structured == "structured_data"

P_health == <<"/", "h", "e", "a", "l", "t", "h">>

P_healthz == <<"/", "h", "e", "a", "l", "t", "h", "z">>

P_apihealth == <<"/", "a", "p", "i", "/", "h", "e", "a", "l", "t", "h">>

P_uhealth == <<"/", "_", "h", "e", "a", "l", "t", "h">>

P_status == <<"/", "s", "t", "a", "t", "u", "s">>

P_root == <<"/">>

\* commonPaths
commonPaths == <<P_health, P_healthz, P_apihealth, P_uhealth, P_status>>

\* what tryURL returns: an error, or a response with a status
ProbeOutcomes == {ErrOutcome} \cup {RespOutcome(st) : st \in {200, 301, 404}}

\* the failing CheckResult of checkPath with the error propagated instead
Unreachable_Propagated(configured, calls) == ReturnsError(calls)

\* checkPath: the failure returned for a configured path or the root path
Unreachable(configured, calls) ==
    Returns(CheckResult(ID_health, SeverityWarn, FALSE, <<"Site unreachable: ", "lastErr">>,
                        IF configured
                        THEN <<"Ensure your site is accessible",
                               "Check that the health path is correct in preflight.yml">>
                        ELSE <<"Ensure your site is accessible",
                               "Consider adding a /health endpoint for better monitoring">>,
                        <<>>),
            calls)

\* isSuccess of checkPath with every 2xx and 3xx status accepted on every
\* path
isSuccess_AnySuccess(allowAnySuccess, status) == status >= 200 /\ status < 400

\* isSuccess of checkPath: status 200, or 200..399 for the root URL check
isSuccess(allowAnySuccess, status) ==
    IF allowAnySuccess THEN status >= 200 /\ status < 400
    ELSE status = 200

\* the condition of the failure return of checkPath with the root path
\* treated as an auto-detection probe
ReturnsFailure_ConfiguredOnly(configured, path) == configured

\* the condition under which checkPath returns the failure Result and not
\* the placeholder: a configured path or the root fallback
ReturnsFailure(configured, path) == configured \/ path = P_root

\* HealthCheck.checkPath(ctx, []string{baseURL}, path, configured,
\* allowAnySuccess), where o is what tryURL returns for baseURL + path and
\* calls are the tryURL calls made before
checkPath(c, baseURL, path, configured, allowAnySuccess, o, calls) ==
    LET u == TrimSuffix(baseURL, <<"/">>) \o path
        now == Append(calls, [url |-> u, outcome |-> o])
    IN  IF o.ok /\ isSuccess(allowAnySuccess, o.status)
        THEN Returns(CheckResult(ID_health, SeverityInfo, TRUE,
                                 IF path # P_root THEN <<"Health endpoint returned">>
                                 ELSE <<"Site reachable">>,
                                 <<>>,
                                 IF c.verbose /\ ~configured /\ path # P_root
                                 THEN <<"Auto-detected health endpoint">> ELSE <<>>),
                     now)
        ELSE IF ReturnsFailure(configured, path)
        THEN Unreachable(configured, now)
        ELSE Returns(CheckResult("", "", FALSE, <<>>, <<>>, <<>>), now)

RECURSIVE AutoDetect(_, _, _, _, _)
\* the loop of HealthCheck.Run over commonPaths at element i, and the root
\* fallback after it; tr[k] is what the k-th tryURL call returns
AutoDetect(c, baseURL, tr, i, calls) ==
    IF i > Len(commonPaths)
    THEN checkPath(c, baseURL, P_root, FALSE, TRUE, tr[Len(calls) + 1], calls)
    ELSE LET r == checkPath(c, baseURL, commonPaths[i], FALSE, FALSE, tr[Len(calls) + 1], calls)
         IN  IF r.res.passed THEN Returns(r.res, r.probes)
             ELSE AutoDetect(c, baseURL, tr, i + 1, r.probes)

\* HealthCheck.Run(ctx)
HealthCheckRun(c, tr) ==
    LET baseURL == IF c.staging # <<>> THEN c.staging ELSE c.production IN
    IF baseURL = <<>>
    THEN Returns(CheckResult(ID_health, SeverityInfo, TRUE, <<"No URLs configured to check">>,
                             <<>>, <<>>), <<>>)
    ELSE IF c.hasHealthCfg /\ c.healthPath # <<>>
    THEN checkPath(c, baseURL, c.healthPath, TRUE, FALSE, tr[1], <<>>)
    ELSE AutoDetect(c, baseURL, tr, 1, <<>>)

\* requiredHeaders
requiredHeaders ==
    <<"Strict-Transport-Security", "X-Content-Type-Options", "Referrer-Policy",
      "Content-Security-Policy">>

\* checkURL of SecurityHeadersCheck.Run with the production URL preferred
checkURL_ProductionFirst(c) == IF c.production # <<>> THEN c.production ELSE c.staging

\* checkURL of SecurityHeadersCheck.Run: the staging URL if it is set,
\* otherwise the production URL
checkURL(c) == IF c.staging # <<>> THEN c.staging ELSE c.production

\* SecurityHeadersCheck.Run(ctx), where o is what tryURL returns and
\* headers the set of the response's non-empty headers
SecurityHeadersCheckRun(c, o, headers) ==
    LET urlType == IF c.staging # <<>> THEN "staging" ELSE "production"
        calls == <<[url |-> checkURL(c), outcome |-> o]>>
        missing == SelectSeq(requiredHeaders, LAMBDA h : h \notin headers)
        present == SelectSeq(requiredHeaders, LAMBDA h : h \in headers)
    IN  IF checkURL(c) = <<>>
        THEN Returns(CheckResult(ID_security, SeverityInfo, TRUE,
                                 <<"No staging or production URL configured, skipping">>,
                                 <<>>, <<>>), <<>>)
        ELSE IF ~o.ok
        THEN Returns(CheckResult(ID_security, SeverityWarn, FALSE,
                                 <<"Could not reach URL: ", urlType, "err">>,
                                 <<"Ensure URL is accessible">>, <<>>), calls)
        ELSE IF Len(missing) = 0
        THEN Returns(CheckResult(ID_security, SeverityInfo, TRUE,
                                 <<"All recommended security headers present">>,
                                 <<>>, <<>>), calls)
        ELSE Returns(CheckResult(ID_security, SeverityWarn, FALSE,
                                 <<"Missing security headers: ">> \o missing
                                     \o <<" (present: ">> \o present,
                                 <<"Add missing security headers to your server configuration">>
                                     \o missing,
                                 <<>>), calls)

\* the names of the checks map of SEOMetadataCheck.Run
seoNames == {"title", "description", "og:title", "og:description"}

\* SEOMetadataCheck.Run(ctx).  c.layout is "none" when getLayoutFile finds
\* no layout, "unreadable" when os.ReadFile fails and "read" otherwise;
\* c.nextMeta says that the layout is under app/ and a file of the app
\* exports metadata; missing lists the names that neither their pattern nor
\* an alternate pattern matches, in the order the map was iterated
SEOMetadataCheckRun(c, missing) ==
    IF c.layout = "none"
    THEN Returns(CheckResult(ID_seo, SeverityInfo, TRUE, <<"No layout file found, skipping">>,
                             <<>>, <<>>), <<>>)
    ELSE IF c.layout = "unreadable"
    THEN Returns(CheckResult(ID_seo, SeverityWarn, FALSE, <<"Could not read layout file: ">>,
                             <<"Check that the mainLayout path is correct in preflight.yml">>,
                             <<>>), <<>>)
    ELSE IF c.nextMeta
    THEN Returns(CheckResult(ID_seo, SeverityInfo, TRUE,
                             <<"SEO metadata configured via Next.js Metadata API">>,
                             <<>>, <<>>), <<>>)
    ELSE IF Len(missing) = 0
    THEN Returns(CheckResult(ID_seo, SeverityInfo, TRUE, <<"All required SEO metadata present">>,
                             <<>>, <<>>), <<>>)
    ELSE Returns(CheckResult(ID_seo, SeverityWarn, FALSE,
                             <<"Missing SEO metadata: ">> \o missing,
                             <<"Add missing meta tags to your layout",
                               "Consider using a SEO component or helper">>,
                             <<>>), <<>>)

\* the names of the checks map of OGTwitterCheck.Run
ogNames == {"og:image", "og:url", "og:type", "twitter:card", "twitter:image"}

\* removeFromSlice(slice, item)
removeFromSlice(slice, item) == SelectSeq(slice, LAMBDA x : x # item)

\* contains(slice, item)
contains(slice, item) == \E i \in 1..Len(slice) : slice[i] = item

\* missing after the image files of the project were looked for: an
\* opengraph/og image file stands for og:image, a twitter-image file
\* under public/ for twitter:image, one under app/ also for twitter:card
AfterImageFiles(missing, files) ==
    LET m1 == IF "ogImage" \in files THEN removeFromSlice(missing, "og:image") ELSE missing
        m2 == IF files \cap {"twitterPublic", "twitterApp"} # {}
              THEN removeFromSlice(m1, "twitter:image") ELSE m1
    IN  IF "twitterApp" \in files THEN removeFromSlice(m2, "twitter:card") ELSE m2

\* the details and dimension warnings one image adds.  src is "remote"
\* when the meta tag's URL is fetched, "local" when the image file is read
\* and "none" when there is nothing to measure; size is what the
\* measurement gives: "err", "small", "below" (the recommended size) or "ok"
Measured(c, name, src, size) ==
    IF src = "none" THEN [details |-> <<>>, warnings |-> <<>>]
    ELSE IF size = "err"
    THEN [details |-> IF src = "remote" /\ c.verbose THEN <<name \o " fetch error">> ELSE <<>>,
          warnings |-> <<>>]
    ELSE [details |-> <<name \o " dimensions">>,
          warnings |-> IF size = "small" THEN <<name \o " too small">>
                       ELSE IF size = "below" THEN <<name \o " below recommended">>
                       ELSE <<>>]

\* which measurement OGTwitterCheck.Run makes for an image: metaURL is
\* "none" when the meta tag gives no URL, "unresolved" when it gives a
\* relative URL and no base URL is configured, "resolved" otherwise
MeasureSource(metaURL, hasFile) ==
    IF metaURL = "resolved" THEN "remote"
    ELSE IF metaURL = "unresolved" THEN "none"
    ELSE IF hasFile THEN "local"
    ELSE "none"

\* OGTwitterCheck.Run(ctx) once the layout is read: the Result built from
\* missing, the dimension warnings and the details
OGResult(missing, dimensionWarnings, details) ==
    IF Len(missing) = 0 /\ Len(dimensionWarnings) = 0
    THEN CheckResult(ID_og, SeverityInfo, TRUE, <<"OG and Twitter card metadata configured">>,
                     <<>>, details)
    ELSE CheckResult(ID_og, SeverityWarn, FALSE,
                     (IF Len(missing) > 0 THEN <<"Missing: ">> \o missing ELSE <<>>)
                         \o dimensionWarnings,
                     (IF Len(missing) > 0 /\ contains(missing, "og:image")
                      THEN <<"Add og:image for rich social media previews">> ELSE <<>>)
                         \o (IF Len(missing) > 0 /\ contains(missing, "twitter:card")
                             THEN <<"Add twitter:card for Twitter/X previews">> ELSE <<>>)
                         \o (IF Len(dimensionWarnings) > 0
                             THEN <<"Use the recommended sizes for OG and Twitter images">>
                             ELSE <<>>),
                     details)

\* OGTwitterCheck.Run(ctx).  c.layout and c.nextMeta as for
\* SEOMetadataCheckRun; missing as there, for the names of ogNames; files
\* are the kinds of image files the project holds; c.ogURL / c.twURL say
\* what the og:image / twitter:image meta tag gives, ogSize / twSize what
\* measuring the image gives
OGTwitterCheckRun(c, missing, files, ogSize, twSize) ==
    IF c.layout = "none"
    THEN Returns(CheckResult(ID_og, SeverityInfo, TRUE, <<"No layout file found, skipping">>,
                             <<>>, <<>>), <<>>)
    ELSE IF c.layout = "unreadable"
    THEN Returns(CheckResult(ID_og, SeverityWarn, FALSE, <<"Could not read layout file: ">>,
                             <<>>, <<>>), <<>>)
    ELSE IF c.nextMeta
    THEN Returns(CheckResult(ID_og, SeverityInfo, TRUE,
                             <<"OG and Twitter metadata configured via Next.js Metadata API">>,
                             <<>>, <<>>), <<>>)
    ELSE LET og == Measured(c, "og:image",
                            MeasureSource(c.ogURL, "ogImage" \in files), ogSize)
             tw == Measured(c, "twitter:image",
                            MeasureSource(c.twURL, files \cap {"twitterPublic", "twitterApp"} # {}),
                            twSize)
         IN  Returns(OGResult(AfterImageFiles(missing, files),
                              og.warnings \o tw.warnings,
                              og.details \o tw.details), <<>>)

\* StructuredDataCheck.Run(ctx); foundIn says where structured data was
\* found: "layout", "partial", "codebase" or "none"
StructuredDataCheckRun(c, foundIn) ==
    IF foundIn = "none"
    THEN Returns(CheckResult(ID_structured, SeverityWarn, FALSE, <<"No structured data found">>,
                             <<"Add JSON-LD structured data">>, <<>>), <<>>)
    ELSE Returns(CheckResult(ID_structured, SeverityInfo, TRUE,
                             IF foundIn = "partial"
                             THEN <<"Schema.org structured data found (in partial)">>
                             ELSE <<"Schema.org structured data found">>,
                             <<>>,
                             IF c.verbose THEN <<"Found in: " \o foundIn>> ELSE <<>>), <<>>)

-----------------------------------------------------------------------------
(* One Run of one rule, on some Context and project.                       *)

\* the configured staging URLs: none, or a local address
StagingURLs == {<<>>, S_http \o H_test}

\* the configured production URLs: none, or an address with a trailing slash
ProductionURLs == {<<>>, S_https \o H_com \o <<"/">>}

\* the configured health paths ("" when the path is not set)
HealthPaths == {<<>>, P_status, <<"/", "u", "p">>}

\* all sequences that list the elements of the set S once each
Orderings(S) ==
    {s \in [1..Cardinality(S) -> S] : \A i, j \in 1..Cardinality(S) : s[i] = s[j] => i = j}

\* the states of the layout file
Layouts == {"none", "unreadable", "read"}

\* what measuring an image gives
Sizes == {"err", "small", "below", "ok"}

\* what a meta tag gives as the URL of its image
MetaURLs == {"none", "unresolved", "resolved"}

InitRules ==
    /\ pc = "off"
    /\ url = <<>>
    /\ reqs = <<>>
    /\ outs = <<>>
    /\ err = 0
    /\ ret = NoRet
    /\ content = <<>>
    /\ frags = 0
    /\ phase = "off"
    /\ out1 = <<>>
    /\ out2 = <<>>
    /\ pos = 0
    /\ blockSEO = <<>>
    /\ blockOG = <<>>
    /\ key = <<>>
    /\ ReportOff
    /\ ScanOff
    /\ RulesOff
    /\ VersionOff

\* HealthCheck.Run on some configuration and transport
RunHealth ==
    /\ ~result.returned
    /\ \E v \in BOOLEAN, s \in StagingURLs, p \in ProductionURLs, h \in BOOLEAN,
          tr \in [1..(Len(commonPaths) + 1) -> ProbeOutcomes] :
          \E hp \in IF h THEN HealthPaths ELSE {<<>>} :
          /\ ctx' = [rule |-> ID_health, verbose |-> v, staging |-> s, production |-> p,
                     hasHealthCfg |-> h, healthPath |-> hp]
          /\ result' = HealthCheckRun(ctx', tr)
    /\ UNCHANGED <<probeVars, textVars, key, reportVars, scanVars, versionVars>>

\* SecurityHeadersCheck.Run on some configuration, transport and response
RunSecurity ==
    /\ ~result.returned
    /\ \E v \in BOOLEAN, s \in StagingURLs, p \in ProductionURLs,
          o \in ProbeOutcomes :
          \E headers \in IF o.ok THEN SUBSET {requiredHeaders[i] : i \in 1..Len(requiredHeaders)}
                          ELSE {{}} :
          /\ ctx' = [rule |-> ID_security, verbose |-> v, staging |-> s, production |-> p,
                     headers |-> headers]
          /\ result' = SecurityHeadersCheckRun(ctx', o, headers)
    /\ UNCHANGED <<probeVars, textVars, key, reportVars, scanVars, versionVars>>

\* SEOMetadataCheck.Run on some project
RunSEO ==
    /\ ~result.returned
    /\ \E v \in BOOLEAN, l \in Layouts :
          \E n \in IF l = "read" THEN BOOLEAN ELSE {FALSE} :
              \E matched \in IF l = "read" /\ ~n THEN SUBSET seoNames ELSE {{}} :
                  \E missing \in Orderings(seoNames \ matched) :
                      /\ ctx' = [rule |-> ID_seo, verbose |-> v, layout |-> l, nextMeta |-> n,
                                 matched |-> matched]
                      /\ result' = SEOMetadataCheckRun(ctx', missing)
    /\ UNCHANGED <<probeVars, textVars, key, reportVars, scanVars, versionVars>>

\* SEOMetadataCheck.Run once more on the same Context and the same files:
\* the same names match, the map is iterated in some order again
RerunSEO ==
    /\ result.returned
    /\ ctx.rule = ID_seo
    /\ \E missing \in Orderings(seoNames \ ctx.matched) :
          result' = SEOMetadataCheckRun(ctx, missing)
    /\ UNCHANGED ctx
    /\ UNCHANGED <<probeVars, textVars, key, reportVars, scanVars, versionVars>>

\* OGTwitterCheck.Run on some project: the content and the files are only
\* looked at when the layout is read and no file of the app exports
\* metadata, a meta tag gives a URL only if its pattern matches, and an
\* image has a size only if it is measured
RunOG ==
    /\ ~result.returned
    /\ \E v \in BOOLEAN, l \in Layouts :
          \E n \in IF l = "read" THEN BOOLEAN ELSE {FALSE} :
              \E matched \in IF l = "read" /\ ~n THEN SUBSET ogNames ELSE {{}} :
                  \E missing \in Orderings(ogNames \ matched) :
                      \E files \in IF l = "read" /\ ~n
                                    THEN SUBSET {"ogImage", "twitterPublic", "twitterApp"}
                                    ELSE {{}},
                         ou \in IF "og:image" \in matched THEN MetaURLs ELSE {"none"},
                         tu \in IF "twitter:image" \in matched THEN MetaURLs ELSE {"none"} :
                          \E ogSize \in IF MeasureSource(ou, "ogImage" \in files) = "none"
                                         THEN {"err"} ELSE Sizes,
                             twSize \in IF MeasureSource(tu, files \cap {"twitterPublic", "twitterApp"} # {}) = "none"
                                         THEN {"err"} ELSE Sizes :
                              /\ ctx' = [rule |-> ID_og, verbose |-> v, layout |-> l,
                                         nextMeta |-> n, ogURL |-> ou, twURL |-> tu,
                                         matched |-> matched, files |-> files,
                                         ogSize |-> ogSize, twSize |-> twSize]
                              /\ result' = OGTwitterCheckRun(ctx', missing, files, ogSize, twSize)
    /\ UNCHANGED <<probeVars, textVars, key, reportVars, scanVars, versionVars>>

\* OGTwitterCheck.Run once more on the same Context and the same files
RerunOG ==
    /\ result.returned
    /\ ctx.rule = ID_og
    /\ \E missing \in Orderings(ogNames \ ctx.matched) :
          result' = OGTwitterCheckRun(ctx, missing, ctx.files, ctx.ogSize, ctx.twSize)
    /\ UNCHANGED ctx
    /\ UNCHANGED <<probeVars, textVars, key, reportVars, scanVars, versionVars>>

\* StructuredDataCheck.Run on some project
RunStructured ==
    /\ ~result.returned
    /\ \E v \in BOOLEAN, foundIn \in {"layout", "partial", "codebase", "none"} :
          /\ ctx' = [rule |-> ID_structured, verbose |-> v]
          /\ result' = StructuredDataCheckRun(ctx', foundIn)
    /\ UNCHANGED <<probeVars, textVars, key, reportVars, scanVars, versionVars>>

NextRules ==
    \/ RunHealth
    \/ RunSecurity
    \/ RunSEO
    \/ RerunSEO
    \/ RunOG
    \/ RerunOG
    \/ RunStructured

SpecRules == InitRules /\ [][NextRules]_vars

-----------------------------------------------------------------------------
(* Properties of the Results of the rules.                                 *)

\* every tryURL call of the Run failed, and there was one
Unreachable_AllProbesFailed ==
    /\ result.probes # <<>>
    /\ \A i \in 1..Len(result.probes) : ~result.probes[i].outcome.ok

\* the Run could not read the layout file
LayoutUnreadable ==
    /\ ctx.rule \in {ID_seo, ID_og}
    /\ ctx.layout = "unreadable"

\* C17: every Result returned by a rule's Run has at least one suggestion
\* if passed is false and no suggestion if passed is true.
C17_SuggestionsIffFailed ==
    result.returned =>
        /\ ~result.res.passed => result.res.suggestions # <<>>
        /\ result.res.passed => result.res.suggestions = <<>>

\* C18: when Context.Verbose is false, the Result returned by a rule's Run
\* has an empty Details list.
C18_DetailsOnlyVerbose ==
    (result.returned /\ ~ctx.verbose) => result.res.details = <<>>

\* C19: when every probe of the target URL fails, or the layout file
\* cannot be read, Run of HealthCheck, SecurityHeadersCheck,
\* SEOMetadataCheck and OGTwitterCheck returns a nil error and a Result
\* with passed false and a non-empty message.
C19_FailureIsAResult ==
    (/\ result.returned
     /\ ctx.rule \in {ID_health, ID_security, ID_seo, ID_og}
     /\ (Unreachable_AllProbesFailed \/ LayoutUnreadable)) =>
        /\ ~result.err
        /\ ~result.res.passed
        /\ result.res.message # <<>>

\* HealthCheck.Run after the five common paths and the root path all
\* failed to answer
C19_Witness ==
    /\ result.returned
    /\ ctx.rule = ID_health
    /\ Len(result.probes) = Len(commonPaths) + 1
    /\ Unreachable_AllProbesFailed
    /\ ~result.res.passed

-----------------------------------------------------------------------------
(* The order of the steps of comment stripping.                            *)

\* the pipeline 'all block forms first, then the line forms'
BlocksThenLines(c) ==
    LET b1 == RemoveBlocksFrom(c, 1, S_blockOpen, S_blockClose)
        b2 == RemoveBlocksFrom(b1, 1, S_htmlOpen, S_htmlClose)
        b3 == RemoveBlocksFrom(b2, 1, S_twigOpen, S_twigClose)
        b4 == RemoveBlocksFrom(b3, 1, S_erbOpen, S_erbClose)
        l1 == RemoveSingleLineFrom(b4, 1)
    IN  RemoveHashFrom(l1, 1)

\* C20: stripComments removes the block comment forms before the line
\* comment forms: its output is the output of the pipeline 'all block
\* forms first, then line forms'.
C20_BlocksBeforeLines ==
    phase = "stripped" => out1 = BlocksThenLines(content)

-----------------------------------------------------------------------------
(* Auto-detection of the health endpoint.                                  *)

\* the base URL HealthCheck.Run probes: staging, else production
BaseOf(c) == IF c.staging # <<>> THEN c.staging ELSE c.production

\* s without one trailing slash
NoTrailingSlash(s) ==
    IF Len(s) > 0 /\ s[Len(s)] = "/" THEN SubSeq(s, 1, Len(s) - 1) ELSE s

\* the paths of auto-detection in the order the claim gives them
DetectionPaths == <<P_health, P_healthz, P_apihealth, P_uhealth, P_status, P_root>>

\* HealthCheck.Run returned after auto-detection (a base URL is configured
\* and no health path is)
AutoDetected ==
    /\ result.returned
    /\ ctx.rule = ID_health
    /\ BaseOf(ctx) # <<>>
    /\ ~(ctx.hasHealthCfg /\ ctx.healthPath # <<>>)

\* C21: with a base URL and no configured health path, HealthCheck.Run
\* probes /health, /healthz, /api/health, /_health, /status in that order,
\* stops at and returns a passing Result for the first path that answers
\* with status 200, probes "/" only after all five failed, passes there for
\* any status in 200..399 and returns a non-passing warn Result only if the
\* root probe fails too.
C21_AutoDetectOrder ==
    AutoDetected =>
        LET n == Len(result.probes) IN
        /\ n >= 1 /\ n <= Len(DetectionPaths)
        /\ \A i \in 1..n :
              result.probes[i].url = NoTrailingSlash(BaseOf(ctx)) \o DetectionPaths[i]
        /\ \A i \in 1..(n - 1) :
              ~(result.probes[i].outcome.ok /\ result.probes[i].outcome.status = 200)
        /\ n < Len(DetectionPaths) =>
              /\ result.probes[n].outcome.ok
              /\ result.probes[n].outcome.status = 200
              /\ result.res.passed
        /\ n = Len(DetectionPaths) =>
              /\ result.res.passed <=>
                    (/\ result.probes[n].outcome.ok
                     /\ result.probes[n].outcome.status \in 200..399)
              /\ ~result.res.passed => result.res.severity = SeverityWarn

\* the five common paths failed and the root path answered 301: the Run
\* passes after six probes
C21_Witness ==
    /\ AutoDetected
    /\ Len(result.probes) = 6
    /\ result.probes[1].outcome.status = 301
    /\ result.probes[6].outcome.status = 301
    /\ result.res.passed

-----------------------------------------------------------------------------
(* The URL and the verdict of the security headers check.                  *)

\* the set of the four required headers
RequiredHeaderSet == {requiredHeaders[i] : i \in 1..Len(requiredHeaders)}

\* C22: SecurityHeadersCheck.Run probes the staging URL if it is set and
\* the production URL otherwise, never both; when the probe returns a
\* response the Result passes exactly if all four required headers are
\* non-empty on it; when no URL is configured it passes without a request.
C22_SecurityHeadersVerdict ==
    (result.returned /\ ctx.rule = ID_security) =>
        /\ Len(result.probes) <= 1
        /\ (ctx.staging = <<>> /\ ctx.production = <<>>) =>
              result.probes = <<>> /\ result.res.passed
        /\ ctx.staging # <<>> =>
              Len(result.probes) = 1 /\ result.probes[1].url = ctx.staging
        /\ (ctx.staging = <<>> /\ ctx.production # <<>>) =>
              Len(result.probes) = 1 /\ result.probes[1].url = ctx.production
        /\ (Len(result.probes) = 1 /\ result.probes[1].outcome.ok) =>
              (result.res.passed <=> ctx.headers = RequiredHeaderSet)

\* both URLs are configured and the response lacks one header only
C22_Witness ==
    /\ result.returned
    /\ ctx.rule = ID_security
    /\ ctx.staging # <<>>
    /\ ctx.production # <<>>
    /\ Len(result.probes) = 1
    /\ result.probes[1].outcome.ok
    /\ ctx.headers = RequiredHeaderSet \ {"Content-Security-Policy"}
    /\ ~result.res.passed

-----------------------------------------------------------------------------
(* The update check: isNewerVersion of cmd/update.go.                      *)

\* the decimal digits in byte order
Digits == <<"0", "1", "2", "3", "4", "5", "6", "7", "8", "9">>

\* the value of the digit d
DigitValue(d) == CHOOSE v \in 0..9 : Digits[v + 1] = d

\* the byte of the character ch, for the characters of a dotted version
ByteOf(ch) == IF ch = "." THEN 46 ELSE 48 + DigitValue(ch)

\* a < b for Go strings: byte-wise, a proper prefix being smaller
RECURSIVE StringLessFrom(_, _, _)
StringLessFrom(a, b, i) ==
    IF i > Len(b) THEN FALSE
    ELSE IF i > Len(a) THEN TRUE
    ELSE IF ByteOf(a[i]) < ByteOf(b[i]) THEN TRUE
    ELSE IF ByteOf(a[i]) > ByteOf(b[i]) THEN FALSE
    ELSE StringLessFrom(a, b, i + 1)

StringLess(a, b) == StringLessFrom(a, b, 1)

\* strings.Split(s, "."), scanning from offset i with the part cur open
RECURSIVE SplitFrom(_, _, _)
SplitFrom(s, i, cur) ==
    IF i > Len(s) THEN <<cur>>
    ELSE IF s[i] = "." THEN <<cur>> \o SplitFrom(s, i + 1, <<>>)
    ELSE SplitFrom(s, i + 1, Append(cur, s[i]))

Split(s) == SplitFrom(s, 1, <<>>)

\* the loop of isNewerVersion from index i (1-based) and its final return
RECURSIVE isNewerFrom(_, _, _)
isNewerFrom(latestParts, currentParts, i) ==
    IF i <= Len(latestParts) /\ i <= Len(currentParts)
    THEN IF StringLess(currentParts[i], latestParts[i]) THEN TRUE
         ELSE IF StringLess(latestParts[i], currentParts[i]) THEN FALSE
         ELSE isNewerFrom(latestParts, currentParts, i + 1)
    ELSE Len(latestParts) > Len(currentParts)

\* isNewerVersion(latest, current)
isNewerVersion(l, c) == isNewerFrom(Split(l), Split(c), 1)

\* the most components of a version
MaxParts == 3

\* the components versions are made of
Components == {<<"0">>, <<"1">>, <<"9">>, <<"1", "0">>}

\* parts joined by dots
RECURSIVE Join(_)
Join(parts) ==
    IF Len(parts) = 1 THEN parts[1]
    ELSE parts[1] \o <<".">> \o Join(Tail(parts))

\* the dotted versions of up to MaxParts components
Versions == {Join(parts) : parts \in UNION {[1..n -> Components] : n \in 1..MaxParts}}

InitVersion ==
    /\ pc = "off"
    /\ url = <<>>
    /\ reqs = <<>>
    /\ outs = <<>>
    /\ err = 0
    /\ ret = NoRet
    /\ content = <<>>
    /\ frags = 0
    /\ phase = "off"
    /\ out1 = <<>>
    /\ out2 = <<>>
    /\ pos = 0
    /\ blockSEO = <<>>
    /\ blockOG = <<>>
    /\ key = <<>>
    /\ ReportOff
    /\ ScanOff
    /\ RulesOff
    /\ latest \in Versions
    /\ current \in Versions
    /\ newer = <<>>

\* CheckForUpdates compares the fetched version with the running one
Compare ==
    /\ newer = <<>>
    /\ newer' = <<isNewerVersion(latest, current)>>
    /\ UNCHANGED <<probeVars, textVars, key, reportVars, scanVars, ruleVars, latest, current>>

NextVersion == Compare

SpecVersion == InitVersion /\ [][NextVersion]_vars

\* the number a component of decimal digits denotes
RECURSIVE NumberOf(_)
NumberOf(part) ==
    IF part = <<>> THEN 0
    ELSE 10 * NumberOf(SubSeq(part, 1, Len(part) - 1)) + DigitValue(part[Len(part)])

\* l is newer than c when the components are compared as numbers, a
\* version that extends the other one being the newer
RECURSIVE NumericallyNewerFrom(_, _, _)
NumericallyNewerFrom(lp, cp, i) ==
    IF i <= Len(lp) /\ i <= Len(cp)
    THEN IF NumberOf(lp[i]) > NumberOf(cp[i]) THEN TRUE
         ELSE IF NumberOf(lp[i]) < NumberOf(cp[i]) THEN FALSE
         ELSE NumericallyNewerFrom(lp, cp, i + 1)
    ELSE Len(lp) > Len(cp)

NumericallyNewer(l, c) == NumericallyNewerFrom(Split(l), Split(c), 1)

\* C23: isNewerVersion(latest, current) is true exactly when latest is the
\* newer dotted version under numeric comparison of the components (1.10.0
\* is newer than 1.9.0), hence false for equal versions and never true in
\* both directions.
C23_NumericallyNewer ==
    newer # <<>> =>
        /\ newer[1] <=> NumericallyNewer(latest, current)
        /\ ~isNewerVersion(latest, latest)
        /\ ~(isNewerVersion(latest, current) /\ isNewerVersion(current, latest))

-----------------------------------------------------------------------------
(* Escaped quotes in extractBraceBlockSEO.                                 *)

\* C24: in extractBraceBlockSEO a string literal ends at the first matching
\* quote that is not escaped (a quote after an odd number of backslashes
\* stays inside the string, a quote after an even number closes it), so the
\* braces after a string such as "\\" count and the block { a: "\\" } is
\* returned whole.
C24_EvenBackslashesClose ==
    (phase = "extracted" /\ pos < Len(content) /\ content[pos + 1] = "{"
        /\ \E k \in (pos + 1)..Len(content) : content[k] = "\\") =>
        blockSEO = BalancedBlock(content, pos)

-----------------------------------------------------------------------------
(* The requests and the return of one tryURL call.                         *)

\* C25: for every address and every behaviour of the transport, one call of
\* tryURL issues at least one and at most two requests, never the same URL
\* twice, and returns either a response with a nil error or no response
\* with a non-nil error, never both and never neither.
C25_OneOrTwoRequestsOneOutcome ==
    /\ Len(reqs) <= 2
    /\ \A i, j \in 1..Len(reqs) : i # j => reqs[i] # reqs[j]
    /\ Returned =>
          /\ Len(reqs) >= 1
          /\ (ret.resp # 0) # (ret.err # 0)

-----------------------------------------------------------------------------
(* The summary partitions the results.                                     *)

\* the indices of the non-passed results whose severity is info or none of
\* the three known values
NeitherWarnNorError(rs) ==
    {i \in 1..Len(rs) : ~rs[i].passed /\ rs[i].severity \notin {SeverityWarn, SeverityError}}

\* C26: for every Result sequence CalculateSummary yields ok + warn + fail
\* equal to the number of Results with no count negative, and a non-passed
\* Result whose severity is info or not one of the three known values is
\* counted in ok, never in warn or fail.
C26_SummaryPartitions ==
    summary # NoSummary =>
        /\ summary.ok + summary.warn + summary.fail = Len(results)
        /\ summary.ok >= 0 /\ summary.warn >= 0 /\ summary.fail >= 0
        /\ summary.ok >= Cardinality(NeitherWarnNorError(results))
        /\ summary.warn + summary.fail
              <= Len(results) - Cardinality(NeitherWarnNorError(results))

\* a summary of a non-passed info Result, a non-passed Result without
\* severity and a non-passed error
C26_Witness ==
    /\ summary # NoSummary
    /\ Len(results) = 3
    /\ \E i, j, k \in 1..3 :
          /\ ~results[i].passed /\ results[i].severity = SeverityInfo
          /\ ~results[j].passed /\ results[j].severity = ""
          /\ ~results[k].passed /\ results[k].severity = SeverityError
    /\ summary = [ok |-> 2, warn |-> 0, fail |-> 1]

-----------------------------------------------------------------------------
(* The Results of the health check are well-formed.                        *)

\* C27: every Result HealthCheck.Run returns, on every path through
\* auto-detection, carries the ID "healthEndpoint", a non-empty title and
\* message and a severity among info, warn and error; the blank placeholder
\* of checkPath for a failed auto-detect probe is never returned from Run.
C27_HealthResultWellFormed ==
    (result.returned /\ ctx.rule = ID_health) =>
        /\ ~result.err
        /\ result.res.id = ID_health
        /\ result.res.title # ""
        /\ result.res.message # <<>>
        /\ result.res.severity \in {SeverityInfo, SeverityWarn, SeverityError}
        /\ result.res # CheckResult("", "", FALSE, <<>>, <<>>, <<>>)

\* the five common paths produced the placeholder and the root probe
\* failed too
C27_Witness ==
    /\ AutoDetected
    /\ Len(result.probes) = 6
    /\ \A i \in 1..6 : ~result.probes[i].outcome.ok
    /\ ~result.res.passed
    /\ result.res.id = ID_health

-----------------------------------------------------------------------------
(* Locality of the URLs the health check probes.                           *)

\* C28: the dual-protocol fallback follows the locality of the configured
\* base URL: whenever isLocalURL classifies the staging/production base URL
\* as local (a base ending in .local, .test or .ddev.site included), every
\* HealthCheck probe of base + path is treated as local by tryURL too, and
\* so gets the alternate-protocol attempt when its first attempt fails.
C28_ProbesAsLocalAsBase ==
    (result.returned /\ ctx.rule = ID_health /\ isLocalURL(BaseOf(ctx))) =>
        \A i \in 1..Len(result.probes) : isLocalURL(result.probes[i].url)

-----------------------------------------------------------------------------
(* Two runs of a rule on the same project.                                 *)

\* C29: rule execution is deterministic: two runs of SEOMetadataCheck.Run
\* (or OGTwitterCheck.Run) on the same Context and the same file contents
\* return identical Results, the order of the names in the "Missing ..."
\* message included, although the required elements are iterated from an
\* unordered map.
C29_RunsAgree ==
    [][(result.returned /\ ctx.rule \in {ID_seo, ID_og} /\ ctx' = ctx) =>
           result' = result]_vars

-----------------------------------------------------------------------------
(* The frame of the hash-comment step.                                     *)

\* the line holds no '#' and is not blank
IsPlainLine(l) ==
    /\ \A k \in 1..Len(l) : l[k] # "#"
    /\ \E k \in 1..Len(l) : ~IsSpace(l[k])

\* the first non-white-space text of the line is "#{"
StartsHashBrace(l) ==
    \E k \in 1..(Len(l) - 1) :
        /\ l[k] = "#"
        /\ l[k + 1] = "{"
        /\ \A j \in 1..(k - 1) : IsSpace(l[j])

\* C30: the hash-comment step of stripComments deletes characters only from
\* lines whose first non-white-space character is '#': a line holding none
\* of the comment markers is left unchanged even when the line before it is
\* a comment line (a lone '#' included), and a line whose first
\* non-white-space text is "#{" is not removed.
C30_HashStepFrame ==
    (phase = "stripped" /\ ~HasOtherMarker(content)) =>
        \A l \in LinesOf(content) :
            (IsPlainLine(l) \/ StartsHashBrace(l)) => l \in LinesOf(out1)

=============================================================================
